---- MODULE Spec2Model ----
(***************************************************************************)
(* Embedding cluster analytics: the two visualisation scripts              *)
(* (visualize_clusters.py, visualize_with_clustering.py) and the batch     *)
(* matcher (match_all_messages.py) as state machines, and the functions    *)
(* they are built from as operators.                                       *)
(*                                                                         *)
(* Vectors are tuples of small integers.  A centroid is kept as the pair   *)
(* (s, w) standing for the mean s / w, so that every distance comparison   *)
(* of K-Means is exact integer arithmetic (cross-multiplied).              *)
(*                                                                         *)
(* The scripts pin no version of scikit-learn.  TSNE initialises with PCA  *)
(* (the default since 1.2); whether TSNE still takes the n_iter argument   *)
(* (deprecated in 1.5, removed in 1.7) is left to the environment.         *)
(***************************************************************************)
EXTENDS Integers, Sequences, FiniteSets, TLC

VARIABLES
    script,         \* which script's main() runs ("" for a bare function call)
    args,           \* visualize_clusters: the parsed command line
    store,          \* the vector_embeddings index of ElasticSearch
    sklearn_n_iter, \* whether the installed scikit-learn's TSNE takes n_iter
    docs,           \* the messages GET /messages lists
    entropy,        \* the randomness the system hands this process
    earlier,        \* what the run before this one left, <<>> in a first run
    replay,         \* the draws a generator seeded like the earlier one repeats
    reduced,        \* a bare reduction call and its result, <<>> without one
    matching,       \* match_all_messages: its variables, <<>> in the other scripts
    es_status,      \* how the ElasticSearch request ended ("" before it)
    api_status,     \* how the /messages request ended ("" before it)
    vectors_data,   \* main: the records fetch_vectors_from_elasticsearch returned
    messages_map,   \* main: the mapping fetch_messages_from_api returned
    files,          \* the HTML files written so far, in order: [name, fig]
    error,          \* the exception that ended the run ("" while there is none)
    pc,             \* position of the running script / function
    n_clusters,     \* perform_clustering: n_clusters, <<>> for None and <<k>> for k
    embeddings,     \* perform_clustering: the embedding matrix (sequence of vectors)
    cluster_result, \* perform_clustering: what it returned, see NoResult
    centers,        \* KMeans: the centres of the current Lloyd iteration
    labels_old,     \* KMeans: the labels of the previous Lloyd iteration
    n_iter,         \* KMeans: Lloyd iterations completed
    draws           \* KMeans: what its random generator has drawn so far

envVars == <<script, args, store, sklearn_n_iter, docs, entropy, earlier, replay,
            matching>>
fetchVars == <<es_status, api_status, vectors_data, messages_map>>
kmeansVars == <<centers, labels_old, n_iter, draws>>
clusterVars == <<n_clusters, embeddings, cluster_result, kmeansVars>>

vars == <<envVars, reduced, fetchVars, files, error, pc, clusterVars>>

\* an optional value is a sequence of at most one element
None == <<>>
Some(x) == <<x>>

----------------------------------------------------------------------------
(* Bounds of the model *)

\* largest number of records in a clustering / pipeline run
MaxN == 3
\* largest record count fed to the auto-k policy
MaxSamples == 64
\* largest explicit n_clusters argument
MaxK == 3
\* largest number of documents in the store of a fetch
MaxStore == 1001
\* the values the randomness of a process ranges over: 0..MaxEntropy
MaxEntropy == 1
\* largest number of rows of a bare reduction call
MaxReduceN == 33
\* largest number of records in the store of a run that is run twice
MaxTwiceN == 2

\* The embedding vectors the runs draw from: a line of three points whose
\* middle is equidistant from both ends, and one point off the line.
SampleVectors == { <<0, 0>>, <<1, 0>>, <<2, 0>>, <<0, 3>> }

----------------------------------------------------------------------------
(* Small helpers *)

Min(a, b) == IF a < b THEN a ELSE b
Max(a, b) == IF a > b THEN a ELSE b

RECURSIVE SumOver(_, _)
\* sum of f[i] for i in S
SumOver(f, S) == IF S = {} THEN 0
                 ELSE LET i == CHOOSE j \in S : TRUE
                      IN f[i] + SumOver(f, S \ {i})

SeqsUpTo(S, n) == UNION { [1..m -> S] : m \in 0..n }

----------------------------------------------------------------------------
(* perform_clustering: the auto-k policy *)

\* the policy of the source comment "(2-10)": the cap at 10 instead of 5
AutoKWide(n) == Min(10, Max(2, n \div 10))

\* a policy that never asks for fewer than 3 clusters
AutoKFromThree(n) == Min(5, Max(3, n \div 10))

\* n_clusters = min(5, max(2, n_samples // 10))
AutoK(n) == Min(5, Max(2, n \div 10))

----------------------------------------------------------------------------
(* sklearn.cluster.KMeans(n_clusters, random_state=42, n_init=10)          *)
(* .fit_predict(embeddings), as perform_clustering calls it.               *)
(* Labels are 0-based as in Python; centers[l + 1] is the centre of l.     *)

\* max_iter of KMeans (the library default, not overridden by the call)
KMeansMaxIter == 300

VecSum(X, S) == [d \in 1..Len(X[1]) |-> SumOver([i \in S |-> X[i][d]], S)]

RECURSIVE SqNorm(_)
SqNorm(v) == IF v = <<>> THEN 0 ELSE Head(v) * Head(v) + SqNorm(Tail(v))

\* a centre placed on a data point
PointCenter(x) == [s |-> x, w |-> 1]

\* squared distance of x to the centre c, times c.w^2
DistNum(x, c) == SqNorm([d \in 1..Len(x) |-> x[d] * c.w - c.s[d]])

\* dist(x, c1) < dist(y, c2)
Nearer(x, c1, y, c2) ==
    DistNum(x, c1) * c2.w * c2.w < DistNum(y, c2) * c1.w * c1.w

CenterEq(c1, c2) ==
    \A d \in 1..Len(c1.s) : c1.s[d] * c2.w = c2.s[d] * c1.w

\* k-means++ seeding: the first centre is any point; each further centre is
\* drawn with probability proportional to its squared distance to the nearest
\* centre chosen so far, hence never a point that coincides with a chosen
\* centre while some point does not; when every point coincides with a
\* chosen centre the draw degenerates to a point already covered.
RECURSIVE PlusPlus(_, _, _)
PlusPlus(X, k, chosen) ==
    IF Len(chosen) = k THEN {chosen}
    ELSE LET n    == Len(X)
             far  == {i \in 1..n : \A m \in 1..Len(chosen) : X[i] # X[chosen[m]]}
             cand == IF far # {} THEN far ELSE 1..n
         IN UNION { PlusPlus(X, k, Append(chosen, i)) : i \in cand }

\* E-step: every point gets the label of its nearest centre, the lowest
\* label among equally near centres (argmin).
NearestLabel(x, cs) ==
    LET k == Len(cs)
        \* squared distances on the common denominator of all the centres
        den(j) == cs[j].w * cs[j].w
        D == [j \in 1..k |-> DistNum(x, cs[j])]
        less(a, b) == D[a] * den(b) < D[b] * den(a)
    IN CHOOSE l \in 0..(k - 1) :
          /\ \A m \in 0..(l - 1) : less(l + 1, m + 1)
          /\ \A m \in (l + 1)..(k - 1) : ~less(m + 1, l + 1)

\* an E-step that lets the position of a point decide between equally near
\* centres
EStepTiesByPosition(X, cs) ==
    [i \in 1..Len(X) |->
        LET l == NearestLabel(X[i], cs)
            ties == {m \in 0..(Len(cs) - 1) :
                       DistNum(X[i], cs[m + 1]) * cs[l + 1].w * cs[l + 1].w
                         = DistNum(X[i], cs[l + 1]) * cs[m + 1].w * cs[m + 1].w}
        IN IF i % 2 = 1 THEN l
           ELSE CHOOSE m \in ties : \A o \in ties : o <= m]

EStep(X, cs) == [i \in 1..Len(X) |-> NearestLabel(X[i], cs)]

\* M-step: each centre becomes the mean of its members.  A cluster without
\* members is relocated onto one of the points farthest from their own
\* centre (argpartition: which of equally far points, and which empty
\* cluster gets which point, is not specified); that point is taken out of
\* the mean of the cluster it was in.  When every point sits on its own
\* centre (more clusters than distinct samples) nothing is relocated.  A
\* cluster without weight keeps the zero vector of the centred data, which
\* is the data mean.
MStep(X, cs, labels) ==
    LET n       == Len(X)
        k       == Len(cs)
        members == [l \in 0..(k - 1) |-> {i \in 1..n : labels[i] = l}]
        empty   == {l \in 0..(k - 1) : members[l] = {}}
        \* squared distance of point i to its own centre: num[i] / den[i]
        num     == [i \in 1..n |-> DistNum(X[i], cs[labels[i] + 1])]
        den     == [i \in 1..n |-> cs[labels[i] + 1].w * cs[labels[i] + 1].w]
        farsets == {F \in SUBSET (1..n) :
                      /\ Cardinality(F) = Cardinality(empty)
                      /\ \A f \in F, g \in (1..n) \ F :
                            num[f] * den[g] >= num[g] * den[f]}
        moves(F)  == {a \in [empty -> F] : \A f \in F : \E l \in empty : a[l] = f}
        mean(S)   == IF S = {}
                     THEN [s |-> VecSum(X, 1..n), w |-> n]
                     ELSE [s |-> VecSum(X, S), w |-> Cardinality(S)]
        new(F, a) == [j \in 1..k |->
                        IF (j - 1) \in empty THEN PointCenter(X[a[j - 1]])
                        ELSE mean(members[j - 1] \ F)]
    IN IF empty = {} \/ \A i \in 1..n : num[i] = 0
       THEN {[j \in 1..k |-> mean(members[j - 1])]}
       ELSE UNION { {new(F, a) : a \in moves(F)} : F \in farsets }

\* The centres stopped moving: the tolerance test of the Lloyd loop.  On
\* integer data a total shift within tol = 1e-4 * variance is no shift.
WithinTol(cn, c) == \A j \in 1..Len(cn) : CenterEq(cn[j], c[j])

\* np.array / check_array: rows of different lengths make no matrix
Ragged(X) == \E i, j \in 1..Len(X) : Len(X[i]) # Len(X[j])

\* a fit that does not compare the sample count with n_clusters
KMeansFailsEmptyOnly(X, k) == Len(X) = 0 \/ Ragged(X)

\* KMeans.fit_predict raises ValueError when there are fewer samples than
\* clusters, no sample at all, or no matrix.
KMeansFails(X, k) == Len(X) = 0 \/ Ragged(X) \/ Len(X) < k

KMeansSeeds(X, k) == IF KMeansFails(X, k) THEN {} ELSE PlusPlus(X, k, <<>>)

\* a call site that leaves random_state to the library default
Unseeded == None

\* KMeans(n_clusters=n_clusters, random_state=42, n_init=10)
KMeansRandomState == Some(42)

\* What the next draw of a process can be, out of the outcomes S.  A
\* computation that is a function of its input repeats what it gave the
\* earlier process on the same input; so does a random generator created
\* with the same seed, while an unseeded one draws afresh.
Repeats(S, field, repeatable) ==
    LET p == Len(draws) + 1
    IN IF repeatable /\ p <= Len(replay) /\ replay[p][field] \in S
       THEN {replay[p][field]}
       ELSE S

----------------------------------------------------------------------------
(* perform_clustering(embeddings, n_clusters=None) *)

NoResult == [kind |-> "none"]
ClusterOutput(labels, cs) ==
    [kind |-> "ok", labels |-> labels, centers |-> cs]

\* if n_clusters is None: n_clusters = min(5, max(2, len(embeddings) // 10))
SelectK ==
    /\ pc = "perform_clustering"
    /\ n_clusters' = IF n_clusters = None
                     THEN Some(AutoK(Len(embeddings)))
                     ELSE n_clusters
    /\ pc' = "kmeans"
    /\ UNCHANGED <<envVars, reduced, fetchVars, files, error,
                   embeddings, cluster_result, kmeansVars>>

\* KMeans raises: the exception leaves perform_clustering (and main, which
\* catches nothing); nothing is returned.
ClusteringRaises ==
    /\ pc = "kmeans"
    /\ KMeansFails(embeddings, n_clusters[1])
    /\ error' = "ValueError"
    /\ pc' = "raised"
    /\ UNCHANGED <<envVars, reduced, fetchVars, files, clusterVars>>

\* One initialisation of KMeans: k-means++ seeding, labels_old = -1.
\* (fit keeps the best of n_init = 10 such initialisations; the result is
\* the result of one of them, and the model follows that one.)
KMeansInit ==
    /\ pc = "kmeans"
    /\ \E seed \in Repeats(KMeansSeeds(embeddings, n_clusters[1]), "seed",
                            KMeansRandomState # None) :
         /\ centers' = [j \in 1..Len(seed) |-> PointCenter(embeddings[seed[j]])]
         /\ draws' = Append(draws, [seed |-> seed])
    /\ labels_old' = [i \in 1..Len(embeddings) |-> -1]
    /\ n_iter' = 0
    /\ pc' = "lloyd"
    /\ UNCHANGED <<envVars, reduced, fetchVars, files, error,
                   n_clusters, embeddings, cluster_result>>

\* return cluster_labels, kmeans.cluster_centers_
Return(labels, cn) ==
    /\ cluster_result' = ClusterOutput(labels, cn)
    /\ centers' = <<>>
    /\ labels_old' = <<>>
    /\ n_iter' = n_iter + 1
    /\ draws' = Append(draws, [centers |-> cn])
    /\ pc' = "returned"
    /\ UNCHANGED <<n_clusters, embeddings>>

\* One iteration of the Lloyd loop.  The loop ends when the labels repeat
\* (strict convergence), when the centres moved less than the tolerance, or
\* at iteration max_iter; unless the labels repeated, a last E-step makes
\* the labels match the centres.
LloydIter ==
    /\ pc = "lloyd"
    /\ LET labels == EStep(embeddings, centers)
       IN \E cn \in Repeats(MStep(embeddings, centers, labels), "centers", TRUE) :
            IF labels = labels_old
            THEN Return(labels, cn)
            ELSE IF WithinTol(cn, centers) \/ n_iter + 1 >= KMeansMaxIter
                 THEN Return(EStep(embeddings, cn), cn)
                 ELSE /\ centers' = cn
                      /\ labels_old' = labels
                      /\ n_iter' = n_iter + 1
                      /\ draws' = Append(draws, [centers |-> cn])
                      /\ UNCHANGED <<pc, n_clusters, embeddings, cluster_result>>
    /\ UNCHANGED <<envVars, reduced, fetchVars, files, error>>

\* a bare call of a function: no script, no request, no file
NoMain ==
    /\ script = ""
    /\ args = <<>>
    /\ store = <<>>
    /\ sklearn_n_iter = TRUE
    /\ docs = {}
    /\ entropy = 0
    /\ earlier = <<>>
    /\ replay = <<>>
    /\ matching = <<>>
    /\ reduced = <<>>
    /\ es_status = ""
    /\ api_status = ""
    /\ vectors_data = <<>>
    /\ messages_map = <<>>
    /\ files = <<>>
    /\ error = ""

InitCluster ==
    /\ NoMain
    /\ pc = "perform_clustering"
    /\ embeddings \in SeqsUpTo(SampleVectors, MaxN)
    /\ n_clusters \in {None} \cup {Some(k) : k \in 1..MaxK}
    /\ cluster_result = NoResult
    /\ centers = <<>>
    /\ labels_old = <<>>
    /\ n_iter = 0
    /\ draws = <<>>

NextCluster ==
    \/ SelectK
    \/ ClusteringRaises
    \/ KMeansInit
    \/ LloydIter

SpecCluster == InitCluster /\ [][NextCluster]_vars

\* the auto-k branch over the record count alone: n rows of one vector
InitAutoK ==
    /\ NoMain
    /\ pc = "perform_clustering"
    /\ embeddings \in {[i \in 1..n |-> <<0, 0>>] : n \in 0..MaxSamples}
    /\ n_clusters = None
    /\ cluster_result = NoResult
    /\ centers = <<>>
    /\ labels_old = <<>>
    /\ n_iter = 0
    /\ draws = <<>>

NextAutoK == SelectK

SpecAutoK == InitAutoK /\ [][NextAutoK]_vars

----------------------------------------------------------------------------
(* The data of a run *)

\* "size": 1000 of the _search request
PageSize == 1000
\* perplexity = min(30, len(embeddings) - 1)
PerplexityCap == 30
\* sorted(sender_counts.items(), ...)[:10]
TopSenders == 10
\* sorted(cluster_stat['senders'].items(), ...)[:3]
TopClusterSenders == 3

\* The documents of the vector_embeddings index the runs draw from: two
\* messages (one with a clusterId), a template that no message of the API
\* matches, and a document whose embedding has another length.
SampleRecords == {
    [id |-> "e1", referenceId |-> "m1", documentType |-> "MESSAGE",
     embedding |-> <<0, 0, 0>>, clusterId |-> Some("c1")],
    [id |-> "e2", referenceId |-> "m2", documentType |-> "MESSAGE",
     embedding |-> <<2, 0, 0>>, clusterId |-> None],
    [id |-> "e3", referenceId |-> "t1", documentType |-> "TEMPLATE",
     embedding |-> <<0, 3, 1>>, clusterId |-> Some("c2")],
    [id |-> "e4", referenceId |-> "m4", documentType |-> "MESSAGE",
     embedding |-> <<1>>, clusterId |-> None] }

\* The messages GET /messages may list.
SampleDocs == {
    [id |-> "m1", messageType |-> "MT103", senderId |-> "BANKA",
     receiverId |-> "BANKB", status |-> "PROCESSED"],
    [id |-> "m2", messageType |-> "MT202", senderId |-> "BANKB",
     receiverId |-> "BANKA", status |-> "PENDING"] }

\* How an HTTP request can end: an answer with status 200 and a JSON body,
\* an answer with another status, no answer (requests raises
\* ConnectionError), an answer with status 200 whose body is no JSON
\* (response.json() raises JSONDecodeError).
HttpOutcomes == {"200", "500", "unreachable", "malformed"}
HttpFailures == HttpOutcomes \ {"200"}

\* --output: a name is a sequence of pieces, ".html" a piece of its own
Outputs == { <<"cluster_visualization", ".html">>, <<"report">> }

\* the result of a call: a value, or an exception
Ok(v) == [kind |-> "ok", value |-> v]
Raise(e) == [kind |-> "raise", error |-> e]

----------------------------------------------------------------------------
(* fetch_vectors_from_elasticsearch, fetch_messages_from_api *)

\* One _search request of size 1000: the store answers with its first
\* PageSize documents.
Hits(st) == SubSeq(st, 1, Min(PageSize, Len(st)))

\* a vector that files a document without clusterId under "none"
VectorFiledUnderNone(scr, source) ==
    IF scr = "visualize_clusters"
    THEN [id |-> source.id, type |-> source.documentType,
          embedding |-> source.embedding,
          clusterId |-> IF source.clusterId = None THEN Some("none")
                        ELSE source.clusterId,
          referenceId |-> source.referenceId]
    ELSE [id |-> source.id, type |-> source.documentType,
          embedding |-> source.embedding, referenceId |-> source.referenceId]

\* vectors.append({...}): visualize_with_clustering keeps no clusterId
Vector(scr, source) ==
    IF scr = "visualize_clusters"
    THEN [id |-> source.id, type |-> source.documentType,
          embedding |-> source.embedding, clusterId |-> source.clusterId,
          referenceId |-> source.referenceId]
    ELSE [id |-> source.id, type |-> source.documentType,
          embedding |-> source.embedding, referenceId |-> source.referenceId]

fetch_vectors_from_elasticsearch(scr, st, outcome) ==
    CASE outcome = "unreachable" -> Raise("ConnectionError")
      [] outcome = "500"         -> Ok(<<>>)
      [] outcome = "malformed"   -> Raise("JSONDecodeError")
      [] outcome = "200"         ->
            Ok([i \in 1..Len(Hits(st)) |-> Vector(scr, Hits(st)[i])])

\* a dict without keys
EmptyMap == <<>>

\* message_map[msg["id"]] = {...} for every msg of the answer
fetch_messages_from_api(messages, outcome) ==
    CASE outcome = "unreachable" -> Raise("ConnectionError")
      [] outcome = "500"         -> Ok(EmptyMap)
      [] outcome = "malformed"   -> Raise("JSONDecodeError")
      [] outcome = "200"         ->
            Ok([i \in {d.id : d \in messages} |->
                  LET d == CHOOSE e \in messages : e.id = i
                  IN [messageType |-> d.messageType, senderId |-> d.senderId,
                      receiverId |-> d.receiverId, status |-> d.status]])

\* messages_map.get(id, {}): None stands for the empty dict
Lookup(mm, i) == IF i \in DOMAIN mm THEN Some(mm[i]) ELSE None
\* msg.get(field, default)
Get(msg, field, default) == IF msg = None THEN default ELSE msg[1][field]

----------------------------------------------------------------------------
(* reduce_dimensions: TSNE and PCA of scikit-learn *)

Dim(X) == Len(X[1])

\* the cap handed on as it is
PerplexityUnclamped(n) == PerplexityCap

\* perplexity = min(30, len(embeddings) - 1)
Perplexity(n) == Min(PerplexityCap, n - 1)

\* a reduction that takes the width of the matrix from its first row
ReduceErrorFirstRowOnly(X, method, n_components, n_iter_kw) ==
    IF Len(X) = 0 THEN "ValueError"
    ELSE IF method = "tsne" /\ n_iter_kw /\ ~sklearn_n_iter THEN "TypeError"
    ELSE IF method = "tsne" /\ Perplexity(Len(X)) <= 0 THEN "ValueError"
    ELSE IF n_components > Min(Len(X), Dim(X)) THEN "ValueError"
    ELSE ""

\* The exception of reducer construction and fit_transform, "" for none.
\*   np.array of no rows, or of rows of different lengths, is no matrix
\*   (ValueError);
\*   TSNE(n_iter=...) is a TypeError where scikit-learn has dropped n_iter;
\*   TSNE wants perplexity > 0; PCA, and TSNE through its PCA
\*   initialisation, want n_components <= min(n_samples, n_features).
ReduceError(X, method, n_components, n_iter_kw) ==
    IF Len(X) = 0 \/ Ragged(X) THEN "ValueError"
    ELSE IF method = "tsne" /\ n_iter_kw /\ ~sklearn_n_iter THEN "TypeError"
    ELSE IF method = "tsne" /\ Perplexity(Len(X)) <= 0 THEN "ValueError"
    ELSE IF n_components > Min(Len(X), Dim(X)) THEN "ValueError"
    ELSE ""

\* TSNE(..., random_state=42, ...), the same at both call sites
TsneRandomState == Some(42)
\* PCA(..., random_state=42), the same at both call sites
PcaRandomState == Some(42)

\* What a random generator starts from: the seed it is given, or, without
\* one, what the system hands the process.
Generator(random_state) ==
    IF random_state = None THEN -1 - entropy ELSE random_state[1]

\* rows that come back without the last one
ReducedShort(X, method, n_components) ==
    [i \in 1..(Len(X) - 1) |->
        [method |-> method, dims |-> n_components,
         rng |-> Generator(IF method = "pca" THEN PcaRandomState
                           ELSE TsneRandomState),
         at |-> IF method = "pca" THEN X[i] ELSE <<i>>]]

\* The projected rows, one per input row and in input order.  The
\* coordinates are kept abstract: those of PCA are a function of the row's
\* vector, those of TSNE of the row's position, both of the matrix and of
\* what the random generator of the reducer starts from.
Reduced(X, method, n_components) ==
    [i \in 1..Len(X) |->
        [method |-> method, dims |-> n_components,
         rng |-> Generator(IF method = "pca" THEN PcaRandomState
                           ELSE TsneRandomState),
         at |-> IF method = "pca" THEN X[i] ELSE <<i>>]]

Embeddings(vd) == [i \in 1..Len(vd) |-> vd[i].embedding]

\* visualize_clusters.reduce_dimensions (TSNE is given n_iter=1000)
reduce_dimensions(X, method, n_components) ==
    LET e == ReduceError(X, method, n_components, TRUE)
    IN IF e # "" THEN Raise(e) ELSE Ok(Reduced(X, method, n_components))

\* visualize_with_clustering reduces inside create_cluster_visualization,
\* to two dimensions, and builds TSNE without n_iter
ReduceInline(X, method) ==
    LET e == ReduceError(X, method, 2, FALSE)
    IN IF e # "" THEN Raise(e) ELSE Ok(Reduced(X, method, 2))

\* TSNE(..., n_iter=1000) in visualize_clusters; visualize_with_clustering
\* leaves the budget at the library's default, which is 1000 as well
TsneNIter == 1000
\* the gradient descent of TSNE looks at its progress every 50 iterations
NIterCheck == 50

\* a descent that goes on whatever the iteration count
NoCeiling(it) == FALSE

\* for i in range(it, n_iter): the descent ends at iteration n_iter
AtCeiling(it) == it >= TsneNIter

\* A bare call of the reduction of one of the scripts.  PCA and the calls
\* the library rejects answer at once; TSNE starts its gradient descent.
CallReduce ==
    /\ pc = "reduce"
    /\ LET r == IF reduced.site = "visualize_clusters"
                THEN reduce_dimensions(reduced.X, reduced.method,
                                       reduced.n_components)
                ELSE ReduceInline(reduced.X, reduced.method)
           perp == IF reduced.method = "tsne"
                   THEN Some(Perplexity(Len(reduced.X))) ELSE None
       IN IF reduced.method = "tsne" /\ r.kind = "ok"
          THEN /\ reduced' = [reduced EXCEPT !.perplexity = perp]
               /\ pc' = "descent"
          ELSE /\ reduced' = [reduced EXCEPT !.perplexity = perp, !.result = r]
               /\ pc' = "reduced"
    /\ UNCHANGED <<envVars, fetchVars, files, error, clusterVars>>

\* The gradient descent of TSNE, from one look at the progress to the
\* next: it ends when the progress has stalled or the gradient has
\* vanished, and at iteration n_iter at the latest.
TsneDescent ==
    /\ pc = "descent"
    \* the model follows the iteration count up to the ceiling
    /\ reduced.it <= TsneNIter
    /\ LET it == reduced.it + NIterCheck
       IN \E stalled \in BOOLEAN :
            IF stalled \/ AtCeiling(it)
            THEN /\ reduced' =
                      [reduced EXCEPT
                         !.it = it,
                         !.result = IF reduced.site = "visualize_clusters"
                                    THEN reduce_dimensions(reduced.X, "tsne",
                                                           reduced.n_components)
                                    ELSE ReduceInline(reduced.X, "tsne")]
                 /\ pc' = "reduced"
            ELSE /\ reduced' = [reduced EXCEPT !.it = it]
                 /\ pc' = pc
    /\ UNCHANGED <<envVars, fetchVars, files, error, clusterVars>>

\* row i of the long inputs of the reduction
LongRow(i) == <<i % 3, i % 5, i % 2>>

\* The inputs of the bare calls: the short matrices over the sample
\* embeddings (those with rows of different lengths among them), and
\* matrices of up to MaxReduceN rows, beyond the perplexity cap.
ReduceInputs ==
    SeqsUpTo({r.embedding : r \in SampleRecords}, MaxN)
      \cup {[i \in 1..n |-> LongRow(i)] : n \in 0..MaxReduceN}

InitReduce ==
    /\ script = ""
    /\ args = <<>>
    /\ store = <<>>
    /\ sklearn_n_iter \in BOOLEAN
    /\ docs = {}
    /\ entropy = 0
    /\ earlier = <<>>
    /\ replay = <<>>
    /\ matching = <<>>
    /\ reduced \in
          {[site |-> c.site, method |-> c.method, n_components |-> c.n_components,
            X |-> c.X, perplexity |-> None, it |-> 0, result |-> NoResult] :
             c \in {d \in [site : {"visualize_clusters", "visualize_with_clustering"},
                           method : {"tsne", "pca"}, n_components : {2, 3},
                           X : ReduceInputs] :
                      d.site = "visualize_with_clustering" => d.n_components = 2}}
    /\ es_status = ""
    /\ api_status = ""
    /\ vectors_data = <<>>
    /\ messages_map = <<>>
    /\ files = <<>>
    /\ error = ""
    /\ pc = "reduce"
    /\ n_clusters = None
    /\ embeddings = <<>>
    /\ cluster_result = NoResult
    /\ centers = <<>>
    /\ labels_old = <<>>
    /\ n_iter = 0
    /\ draws = <<>>

NextReduce == CallReduce \/ TsneDescent

SpecReduce == InitReduce /\ [][NextReduce]_vars

----------------------------------------------------------------------------
(* Counting *)

Front(q) == SubSeq(q, 1, Len(q) - 1)
Last(q) == q[Len(q)]

\* a count that notes each key once, however often it comes
RECURSIVE CountOnce(_)
CountOnce(keys) ==
    IF keys = <<>> THEN <<>>
    ELSE LET rest == CountOnce(Front(keys))
             k    == Last(keys)
         IN IF \E j \in 1..Len(rest) : rest[j].key = k THEN rest
            ELSE Append(rest, [key |-> k, n |-> 1])

\* counts[key] = counts.get(key, 0) + 1 over the keys in order: a dict, as
\* the sequence of its items in insertion order
RECURSIVE Count(_)
Count(keys) ==
    IF keys = <<>> THEN <<>>
    ELSE LET rest == Count(Front(keys))
             k    == Last(keys)
             at   == {j \in 1..Len(rest) : rest[j].key = k}
         IN IF at = {} THEN Append(rest, [key |-> k, n |-> 1])
            ELSE LET j == CHOOSE x \in at : TRUE
                 IN [rest EXCEPT ![j].n = @ + 1]

\* sorted(items, key=lambda x: x[1], reverse=True): stable, largest first
RECURSIVE SortedByCount(_)
SortedByCount(items) ==
    IF items = <<>> THEN <<>>
    ELSE LET rest == SortedByCount(Front(items))
             it   == Last(items)
             \* it goes behind every item that counts at least as much
             pos  == Cardinality({j \in 1..Len(rest) : rest[j].n >= it.n})
         IN SubSeq(rest, 1, pos) \o <<it>> \o SubSeq(rest, pos + 1, Len(rest))

\* the last m items
TakeLast(q, m) == SubSeq(q, Len(q) - Min(m, Len(q)) + 1, Len(q))

\* q[:m]
Take(q, m) == SubSeq(q, 1, Min(m, Len(q)))

Total(items) == SumOver([j \in 1..Len(items) |-> items[j].n], 1..Len(items))

----------------------------------------------------------------------------
(* visualize_clusters: the views *)

\* the strings the views hash, as numbers
StrCode(str) ==
    CASE str = "MT103"   -> 103
      [] str = "MT202"   -> 202
      [] str = "UNKNOWN" -> 7
      [] OTHER           -> 0

\* hash(str): Python salts the hash of a string with a key it draws when the
\* process starts (PYTHONHASHSEED is not set by the scripts), so the value
\* is fixed within a process and differs between processes.
PyHash(str) == StrCode(str) * (2 * entropy + 1) + 1000 * entropy

\* the colour wheel: hash(c) % 360
Hues == 360

\* one marker of a scatter trace
Marker(vd, mm, i, xy) ==
    LET vec == vd[i]
        msg == Lookup(mm, vec.referenceId)
    IN [recordIndex |-> i,
        referenceId |-> vec.referenceId,
        text        |-> Get(msg, "messageType", "UNKNOWN"),
        color       |-> PyHash(Get(msg, "messageType", "UNKNOWN")) % Hues,
        sender      |-> Get(msg, "senderId", "N/A"),
        receiver    |-> Get(msg, "receiverId", "N/A"),
        status      |-> Get(msg, "status", "N/A"),
        symbol      |-> IF vec.type = "TEMPLATE" THEN "star" ELSE "circle",
        xy          |-> xy]

Scatter(vd, mm, method, n_components) ==
    LET r == reduce_dimensions(Embeddings(vd), method, n_components)
    IN IF r.kind = "raise" THEN r
       ELSE Ok([view   |-> "scatter",
                traces |-> << [name   |-> "Messages",
                               points |-> [i \in 1..Len(vd) |->
                                             Marker(vd, mm, i, r.value[i])]] >>])

create_2d_visualization(vd, mm, method) == Scatter(vd, mm, method, 2)

create_3d_visualization(vd, mm, method) == Scatter(vd, mm, method, 3)

create_cluster_comparison(vd, mm) ==
    LET tsne_2d == reduce_dimensions(Embeddings(vd), "tsne", 2)
        pca_2d  == reduce_dimensions(Embeddings(vd), "pca", 2)
        panel(name, red) ==
            [name   |-> name,
             points |-> [i \in 1..Len(vd) |-> Marker(vd, mm, i, red[i])]]
    IN IF tsne_2d.kind = "raise" THEN tsne_2d
       ELSE IF pca_2d.kind = "raise" THEN pca_2d
       ELSE Ok([view   |-> "comparison",
                traces |-> << panel("t-SNE", tsne_2d.value),
                              panel("PCA", pca_2d.value) >>])

HasClusterId(vec) == vec.clusterId # None

\* a statistics view that counts the message types under their hues
StatisticsByHue(vd, mm) ==
    LET msg(i)   == Lookup(mm, vd[i].referenceId)
        hues     == [i \in 1..Len(vd) |->
                       PyHash(Get(msg(i), "messageType", "UNKNOWN")) % Hues]
        clusters == LET with == SelectSeq(vd, HasClusterId)
                    IN [i \in 1..Len(with) |-> with[i].clusterId[1]]
        senders  == [i \in 1..Len(vd) |-> Get(msg(i), "senderId", "UNKNOWN")]
        kinds    == [i \in 1..Len(vd) |-> vd[i].type]
    IN Ok([view           |-> "stats",
           type_counts    |-> Count(hues),
           cluster_counts |-> Count(clusters),
           sender_counts  |-> Count(senders),
           top_senders    |-> Take(SortedByCount(Count(senders)), TopSenders),
           doc_types      |-> Count(kinds)])

create_statistics_view(vd, mm) ==
    LET msg(i)   == Lookup(mm, vd[i].referenceId)
        types    == [i \in 1..Len(vd) |-> Get(msg(i), "messageType", "UNKNOWN")]
        clusters == LET with == SelectSeq(vd, HasClusterId)
                    IN [i \in 1..Len(with) |-> with[i].clusterId[1]]
        senders  == [i \in 1..Len(vd) |-> Get(msg(i), "senderId", "UNKNOWN")]
        kinds    == [i \in 1..Len(vd) |-> vd[i].type]
    IN Ok([view           |-> "stats",
           type_counts    |-> Count(types),
           cluster_counts |-> Count(clusters),
           sender_counts  |-> Count(senders),
           top_senders    |-> Take(SortedByCount(Count(senders)), TopSenders),
           doc_types      |-> Count(kinds)])

----------------------------------------------------------------------------
(* visualize_with_clustering: the views *)

\* np.unique(cluster_labels): the labels in use, ascending
RECURSIVE Ascending(_)
Ascending(S) ==
    IF S = {} THEN <<>>
    ELSE LET m == CHOOSE x \in S : \A y \in S : x <= y
         IN <<m>> \o Ascending(S \ {m})

unique_clusters(labels) == Ascending({labels[i] : i \in 1..Len(labels)})

\* the first position of the cluster alone
FirstOfCluster(labels, c) ==
    <<CHOOSE i \in 1..Len(labels) :
         labels[i] = c /\ \A j \in 1..(i - 1) : labels[j] # c>>

\* np.where(cluster_labels == cluster_id)[0]: the positions, ascending
cluster_indices(labels, c) == Ascending({i \in 1..Len(labels) : labels[i] = c})

ClusterMarker(vd, mm, i, c, xy) ==
    LET msg == Lookup(mm, vd[i].referenceId)
    IN [recordIndex |-> i,
        referenceId |-> vd[i].referenceId,
        text        |-> Get(msg, "messageType", "N/A"),
        sender      |-> Get(msg, "senderId", "N/A"),
        receiver    |-> Get(msg, "receiverId", "N/A"),
        status      |-> Get(msg, "status", "N/A"),
        cluster     |-> c,
        xy          |-> xy]

\* traces that leave out the records without metadata entry
ClusterTracesMatchedOnly(vd, mm, labels, red) ==
    LET uc == unique_clusters(labels)
    IN [t \in 1..Len(uc) |->
          LET idx == cluster_indices(labels, uc[t])
              hit == SelectSeq(idx, LAMBDA i : vd[i].referenceId \in DOMAIN mm)
          IN [name   |-> uc[t],
              points |-> [j \in 1..Len(hit) |->
                            ClusterMarker(vd, mm, hit[j], uc[t], red[hit[j]])]]]

\* traces that read the projected rows by the position inside the cluster
ClusterTracesByPosition(vd, mm, labels, red) ==
    LET uc == unique_clusters(labels)
    IN [t \in 1..Len(uc) |->
          LET idx == cluster_indices(labels, uc[t])
          IN [name   |-> uc[t],
              points |-> [j \in 1..Len(idx) |->
                            ClusterMarker(vd, mm, idx[j], uc[t], red[j])]]]

\* one trace per cluster in use, with the records of that cluster
ClusterTraces(vd, mm, labels, red) ==
    LET uc == unique_clusters(labels)
    IN [t \in 1..Len(uc) |->
          LET idx == cluster_indices(labels, uc[t])
          IN [name   |-> uc[t],
              points |-> [j \in 1..Len(idx) |->
                            ClusterMarker(vd, mm, idx[j], uc[t], red[idx[j]])]]]

\* TSNE is built without n_iter here
create_cluster_visualization(vd, mm, labels, method) ==
    LET r == ReduceInline(Embeddings(vd), method)
    IN IF r.kind = "raise" THEN r
       ELSE Ok([view   |-> "clusters",
                traces |-> ClusterTraces(vd, mm, labels, r.value)])

create_cluster_details(vd, mm, labels) ==
    LET uc == unique_clusters(labels)
        stat(c) ==
            LET idx == cluster_indices(labels, c)
                msg(j) == Lookup(mm, vd[idx[j]].referenceId)
                senders == Count([j \in 1..Len(idx) |->
                                    Get(msg(j), "senderId", "UNKNOWN")])
            IN [cluster_id  |-> c,
                size        |-> Len(idx),
                types       |-> Count([j \in 1..Len(idx) |->
                                         Get(msg(j), "messageType", "UNKNOWN")]),
                senders     |-> senders,
                top_senders |-> Take(SortedByCount(senders), TopClusterSenders)]
    IN Ok([view          |-> "details",
           cluster_stats |-> [t \in 1..Len(uc) |-> stat(uc[t])]])

----------------------------------------------------------------------------
(* main of the two scripts *)

\* str.replace(".html", suffix): every ".html" piece becomes the suffix
RECURSIVE Replace(_, _)
Replace(name, suffix) ==
    IF name = <<>> THEN <<>>
    ELSE (IF Head(name) = ".html" THEN suffix ELSE <<Head(name)>>)
         \o Replace(Tail(name), suffix)

\* fig = create_...(...); fig.write_html(name): the view is built, and only
\* then written; an exception of the builder ends the run.
BuildAndWrite(r, name, next) ==
    IF r.kind = "raise"
    THEN /\ error' = r.error
         /\ pc' = "raised"
         /\ files' = files
    ELSE /\ files' = Append(files, [name |-> name, fig |-> r.value])
         /\ pc' = next
         /\ error' = error

\* a main that goes on with whatever the fetch returned
MainFetchVectorsGoesOn ==
    /\ pc = "fetch_vectors"
    /\ \E outcome \in HttpOutcomes :
         LET r == fetch_vectors_from_elasticsearch(script, store, outcome)
         IN /\ es_status' = outcome
            /\ IF r.kind = "raise"
               THEN /\ error' = r.error
                    /\ pc' = "raised"
                    /\ vectors_data' = vectors_data
               ELSE /\ vectors_data' = r.value
                    /\ pc' = "fetch_messages"
                    /\ error' = error
    /\ UNCHANGED <<envVars, reduced, api_status, messages_map, files, clusterVars>>

\* vectors_data = fetch_vectors_from_elasticsearch()
\* if not vectors_data: print("No vectors found..."); return
MainFetchVectors ==
    /\ pc = "fetch_vectors"
    /\ \E outcome \in HttpOutcomes :
         LET r == fetch_vectors_from_elasticsearch(script, store, outcome)
         IN /\ es_status' = outcome
            /\ IF r.kind = "raise"
               THEN /\ error' = r.error
                    /\ pc' = "raised"
                    /\ vectors_data' = vectors_data
               ELSE /\ vectors_data' = r.value
                    /\ pc' = IF r.value = <<>> THEN "no_vectors"
                             ELSE "fetch_messages"
                    /\ error' = error
    /\ UNCHANGED <<envVars, reduced, api_status, messages_map, files, clusterVars>>

\* messages_map = fetch_messages_from_api(); visualize_with_clustering goes
\* on to embeddings = np.array([...]) and perform_clustering(embeddings)
MainFetchMessages ==
    /\ pc = "fetch_messages"
    /\ \E outcome \in HttpOutcomes :
         LET r == fetch_messages_from_api(docs, outcome)
         IN /\ api_status' = outcome
            /\ IF r.kind = "raise"
               THEN /\ error' = r.error
                    /\ pc' = "raised"
                    /\ UNCHANGED <<messages_map, embeddings>>
               ELSE /\ messages_map' = r.value
                    /\ error' = error
                    /\ IF script = "visualize_clusters"
                       THEN pc' = "scatter" /\ embeddings' = embeddings
                       ELSE /\ pc' = "perform_clustering"
                            /\ embeddings' = Embeddings(vectors_data)
    /\ UNCHANGED <<envVars, reduced, es_status, vectors_data, files,
                   n_clusters, cluster_result, kmeansVars>>

\* if args.view == "scatter" or args.view == "all": ...
MainScatter ==
    /\ pc = "scatter"
    /\ IF args.view \in {"scatter", "all"}
       THEN BuildAndWrite(
              IF args.dimensions = "2d"
              THEN create_2d_visualization(vectors_data, messages_map, args.method)
              ELSE create_3d_visualization(vectors_data, messages_map, args.method),
              Replace(args.output,
                      <<"_", args.method, "_", args.dimensions, ".html">>),
              "comparison")
       ELSE pc' = "comparison" /\ UNCHANGED <<files, error>>
    /\ UNCHANGED <<envVars, reduced, fetchVars, clusterVars>>

\* if args.view == "comparison" or args.view == "all": ...
MainComparison ==
    /\ pc = "comparison"
    /\ IF args.view \in {"comparison", "all"}
       THEN BuildAndWrite(create_cluster_comparison(vectors_data, messages_map),
                          Replace(args.output, <<"_comparison.html">>),
                          "stats")
       ELSE pc' = "stats" /\ UNCHANGED <<files, error>>
    /\ UNCHANGED <<envVars, reduced, fetchVars, clusterVars>>

\* if args.view == "stats" or args.view == "all": ...
MainStats ==
    /\ pc = "stats"
    /\ IF args.view \in {"stats", "all"}
       THEN BuildAndWrite(create_statistics_view(vectors_data, messages_map),
                          Replace(args.output, <<"_stats.html">>),
                          "done")
       ELSE pc' = "done" /\ UNCHANGED <<files, error>>
    /\ UNCHANGED <<envVars, reduced, fetchVars, clusterVars>>

\* fig_tsne = create_cluster_visualization(..., method="tsne"); write_html
MainTsneView ==
    /\ pc = "returned"
    /\ script = "visualize_with_clustering"
    /\ BuildAndWrite(create_cluster_visualization(vectors_data, messages_map,
                                                  cluster_result.labels, "tsne"),
                     <<"clusters_tsne.html">>, "pca_view")
    /\ UNCHANGED <<envVars, reduced, fetchVars, clusterVars>>

\* a PCA view over labels of its own: the clusters numbered the other way
MainPcaViewOwnLabels ==
    /\ pc = "pca_view"
    /\ LET own == [i \in 1..Len(cluster_result.labels) |->
                    n_clusters[1] - 1 - cluster_result.labels[i]]
       IN BuildAndWrite(create_cluster_visualization(vectors_data, messages_map,
                                                     own, "pca"),
                        <<"clusters_pca.html">>, "details")
    /\ UNCHANGED <<envVars, reduced, fetchVars, clusterVars>>

\* fig_pca = create_cluster_visualization(..., method="pca"); write_html
MainPcaView ==
    /\ pc = "pca_view"
    /\ BuildAndWrite(create_cluster_visualization(vectors_data, messages_map,
                                                  cluster_result.labels, "pca"),
                     <<"clusters_pca.html">>, "details")
    /\ UNCHANGED <<envVars, reduced, fetchVars, clusterVars>>

\* fig_stats = create_cluster_details(...); write_html
MainDetails ==
    /\ pc = "details"
    /\ BuildAndWrite(create_cluster_details(vectors_data, messages_map,
                                            cluster_result.labels),
                     <<"clusters_statistics.html">>, "done")
    /\ UNCHANGED <<envVars, reduced, fetchVars, clusterVars>>

Init ==
    /\ script \in {"visualize_clusters", "visualize_with_clustering"}
    /\ args \in IF script = "visualize_clusters"
                THEN [method : {"tsne", "pca"}, dimensions : {"2d", "3d"},
                      view : {"scatter", "comparison", "stats", "all"},
                      output : Outputs]
                ELSE {<<>>}
    /\ store \in SeqsUpTo(SampleRecords, MaxN)
    /\ sklearn_n_iter \in BOOLEAN
    /\ docs \in SUBSET SampleDocs
    /\ entropy \in 0..MaxEntropy
    /\ earlier = <<>>
    /\ replay = <<>>
    /\ matching = <<>>
    /\ reduced = <<>>
    /\ es_status = ""
    /\ api_status = ""
    /\ vectors_data = <<>>
    /\ messages_map = EmptyMap
    /\ files = <<>>
    /\ error = ""
    /\ pc = "fetch_vectors"
    /\ n_clusters = None
    /\ embeddings = <<>>
    /\ cluster_result = NoResult
    /\ centers = <<>>
    /\ labels_old = <<>>
    /\ n_iter = 0
    /\ draws = <<>>

Next ==
    \/ MainFetchVectors
    \/ MainFetchMessages
    \/ MainScatter
    \/ MainComparison
    \/ MainStats
    \/ SelectK
    \/ ClusteringRaises
    \/ KMeansInit
    \/ LloydIter
    \/ MainTsneView
    \/ MainPcaView
    \/ MainDetails

Spec == Init /\ [][Next]_vars

\* A run, and then a second run of the same script in a new process, over
\* the same store and the same messages; visualize_clusters with the same
\* command line or with the other reduction method.
Rerun ==
    /\ pc = "done"
    /\ earlier = <<>>
    /\ earlier' = Some([args |-> args, es_status |-> es_status,
                        api_status |-> api_status, files |-> files,
                        cluster_result |-> cluster_result])
    /\ replay' = draws
    /\ entropy' \in 0..MaxEntropy
    /\ args' \in IF script = "visualize_clusters"
                 THEN {[args EXCEPT !.method = m] : m \in {"tsne", "pca"}}
                 ELSE {args}
    /\ es_status' = ""
    /\ api_status' = ""
    /\ vectors_data' = <<>>
    /\ messages_map' = EmptyMap
    /\ files' = <<>>
    /\ error' = ""
    /\ pc' = "fetch_vectors"
    /\ n_clusters' = None
    /\ embeddings' = <<>>
    /\ cluster_result' = NoResult
    /\ centers' = <<>>
    /\ labels_old' = <<>>
    /\ n_iter' = 0
    /\ draws' = <<>>
    /\ UNCHANGED <<script, store, sklearn_n_iter, docs, reduced, matching>>

InitTwice ==
    /\ Init
    /\ Len(store) <= MaxTwiceN

NextTwice == Next \/ Rerun

SpecTwice == InitTwice /\ [][NextTwice]_vars

\* The two iterative computations as the scripts call them, perform_clustering
\* and the reduction, with the scheduling of a sequential program: a step
\* that can be taken is taken.
MaxLiveN == 2

InitLive ==
    \/ InitCluster /\ Len(embeddings) <= MaxLiveN
    \/ InitReduce

NextLive == NextCluster \/ NextReduce

SpecLive == InitLive /\ [][NextLive]_vars /\ WF_vars(NextLive)

\* The fetch alone, over stores up to and beyond one page: n copies of one
\* document.
FetchSource == CHOOSE source \in SampleRecords : source.id = "e1"

InitFetch ==
    /\ script \in {"visualize_clusters", "visualize_with_clustering"}
    /\ args = <<>>
    /\ store \in {[i \in 1..n |-> FetchSource] : n \in 0..MaxStore}
    /\ sklearn_n_iter = TRUE
    /\ docs = {}
    /\ entropy = 0
    /\ earlier = <<>>
    /\ replay = <<>>
    /\ matching = <<>>
    /\ reduced = <<>>
    /\ es_status = ""
    /\ api_status = ""
    /\ vectors_data = <<>>
    /\ messages_map = EmptyMap
    /\ files = <<>>
    /\ error = ""
    /\ pc = "fetch_vectors"
    /\ n_clusters = None
    /\ embeddings = <<>>
    /\ cluster_result = NoResult
    /\ centers = <<>>
    /\ labels_old = <<>>
    /\ n_iter = 0
    /\ draws = <<>>

NextFetch == MainFetchVectors

SpecFetch == InitFetch /\ [][NextFetch]_vars

\* The statistics run of visualize_clusters over larger stores: m messages
\* of m different senders, one embedding each, followed by up to MaxExtra
\* further embeddings that refer to one of these messages or to none that
\* the API lists (reference 0).  Every third embedding carries no
\* clusterId, every fourth is a template.
MaxSenders == 12
MaxExtra == 2

MessageName(r) == "m" \o ToString(r)
SenderName(r) == "BANK" \o ToString(r)

StatsDoc(r) ==
    [id |-> MessageName(r),
     messageType |-> IF r % 2 = 0 THEN "MT202" ELSE "MT103",
     senderId |-> SenderName(r), receiverId |-> SenderName(r + 1),
     status |-> "PROCESSED"]

StatsSource(i, r) ==
    [id |-> "e" \o ToString(i), referenceId |-> MessageName(r),
     documentType |-> IF i % 4 = 0 THEN "TEMPLATE" ELSE "MESSAGE",
     embedding |-> LongRow(i),
     clusterId |-> IF i % 3 = 0 THEN None
                   ELSE Some("c" \o ToString(i % 3))]

StatsStores ==
    UNION {{[i \in 1..(m + Len(extra)) |->
               StatsSource(i, IF i <= m THEN i ELSE extra[i - m])] :
            extra \in SeqsUpTo(0..m, MaxExtra)} : m \in 0..MaxSenders}

InitStats ==
    /\ script = "visualize_clusters"
    /\ args = [method |-> "pca", dimensions |-> "2d", view |-> "stats",
               output |-> <<"cluster_visualization", ".html">>]
    /\ store \in StatsStores
    /\ sklearn_n_iter = TRUE
    /\ docs = {StatsDoc(r) : r \in 1..MaxSenders}
    /\ entropy = 0
    /\ earlier = <<>>
    /\ replay = <<>>
    /\ matching = <<>>
    /\ reduced = <<>>
    /\ es_status = ""
    /\ api_status = ""
    /\ vectors_data = <<>>
    /\ messages_map = EmptyMap
    /\ files = <<>>
    /\ error = ""
    /\ pc = "fetch_vectors"
    /\ n_clusters = None
    /\ embeddings = <<>>
    /\ cluster_result = NoResult
    /\ centers = <<>>
    /\ labels_old = <<>>
    /\ n_iter = 0
    /\ draws = <<>>

NextStats ==
    \/ MainFetchVectors
    \/ MainFetchMessages
    \/ MainScatter
    \/ MainComparison
    \/ MainStats

SpecStats == InitStats /\ [][NextStats]_vars

----------------------------------------------------------------------------
(* match_all_messages: the pagination loop and the matching loop *)

\* the pages the backend serves in a run, and the messages on one page
MaxPages == 2
MaxContent == 2

\* The messages GET /api/messages may list.
SampleMessages == {
    [id |-> "a", status |-> "CLUSTERED"],
    [id |-> "b", status |-> "NEW"],
    [id |-> "c", status |-> "CLUSTERED"] }

\* [m for m in messages if m.get('status') == 'CLUSTERED']
IsClustered(m) == m.status = "CLUSTERED"
Clustered(messages) == SelectSeq(messages, IsClustered)

\* How a match request can end: a status code, or an exception of requests.
MatchAnswers == {"200", "201", "500", "exception"}

\* One round of `while True`: a GET of the current page.  A status other
\* than 200 ends the loop, as does a page with last (absent: True) or an
\* answer that is a plain array; an exception of the request or of
\* response.json() ends the script.
FetchPage ==
    /\ pc = "collect"
    /\ \E outcome \in HttpOutcomes :
         CASE outcome = "unreachable" ->
                /\ error' = "ConnectionError" /\ pc' = "raised"
                /\ matching' = matching
           [] outcome = "malformed" ->
                /\ error' = "JSONDecodeError" /\ pc' = "raised"
                /\ matching' = matching
           [] outcome = "500" ->
                /\ pc' = "match" /\ UNCHANGED <<error, matching>>
           [] outcome = "200" ->
                \E content \in SeqsUpTo(SampleMessages, MaxContent),
                   paginated \in BOOLEAN, last \in {None, Some(TRUE), Some(FALSE)} :
                   LET all == matching.all_messages \o Clustered(content)
                       more == paginated /\ last = Some(FALSE)
                   IN /\ more => matching.page + 1 < MaxPages
                      /\ matching' = [matching EXCEPT
                                         !.all_messages = all,
                                         !.page = IF more THEN @ + 1 ELSE @]
                      /\ pc' = IF more THEN "collect" ELSE "match"
                      /\ error' = error
    /\ UNCHANGED <<script, args, store, sklearn_n_iter, docs, entropy, earlier,
                   replay, reduced, fetchVars, files, clusterVars>>

\* a loop body without the try: an exception of the request ends the script
MatchOneUncaught ==
    /\ pc = "match"
    /\ Len(matching.posted) < Len(matching.all_messages)
    /\ LET message == matching.all_messages[Len(matching.posted) + 1]
       IN \E answer \in MatchAnswers :
            /\ matching' =
                  [matching EXCEPT
                     !.posted = Append(@, message.id),
                     !.answers = Append(@, answer),
                     !.success_count = IF answer \in {"200", "201"} THEN @ + 1 ELSE @,
                     !.failed_count = IF answer \in {"200", "201", "exception"}
                                      THEN @ ELSE @ + 1]
            /\ pc' = IF answer = "exception" THEN "raised" ELSE pc
            /\ error' = IF answer = "exception" THEN "RequestException" ELSE error
    /\ UNCHANGED <<script, args, store, sklearn_n_iter, docs, entropy, earlier,
                   replay, reduced, fetchVars, files, clusterVars>>

\* One round of `for idx, message in enumerate(all_messages, 1)`: a POST for
\* the message; 200 or 201 counts as a success, another status and an
\* exception as a failure.
MatchOne ==
    /\ pc = "match"
    /\ Len(matching.posted) < Len(matching.all_messages)
    /\ LET message == matching.all_messages[Len(matching.posted) + 1]
       IN \E answer \in MatchAnswers :
            matching' =
              [matching EXCEPT
                 !.posted = Append(@, message.id),
                 !.answers = Append(@, answer),
                 !.success_count = IF answer \in {"200", "201"} THEN @ + 1 ELSE @,
                 !.failed_count = IF answer \in {"200", "201"} THEN @ ELSE @ + 1]
    /\ UNCHANGED <<script, args, store, sklearn_n_iter, docs, entropy, earlier,
                   replay, reduced, fetchVars, files, error, pc, clusterVars>>

\* the loop is over: the summary is printed
MatchSummary ==
    /\ pc = "match"
    /\ Len(matching.posted) = Len(matching.all_messages)
    /\ pc' = "done"
    /\ UNCHANGED <<envVars, reduced, fetchVars, files, error, clusterVars>>

InitMatch ==
    /\ script = "match_all_messages"
    /\ args = <<>>
    /\ store = <<>>
    /\ sklearn_n_iter = TRUE
    /\ docs = {}
    /\ entropy = 0
    /\ earlier = <<>>
    /\ replay = <<>>
    /\ matching = [page |-> 0, all_messages |-> <<>>, posted |-> <<>>,
                   answers |-> <<>>, success_count |-> 0, failed_count |-> 0]
    /\ reduced = <<>>
    /\ es_status = ""
    /\ api_status = ""
    /\ vectors_data = <<>>
    /\ messages_map = EmptyMap
    /\ files = <<>>
    /\ error = ""
    /\ pc = "collect"
    /\ n_clusters = None
    /\ embeddings = <<>>
    /\ cluster_result = NoResult
    /\ centers = <<>>
    /\ labels_old = <<>>
    /\ n_iter = 0
    /\ draws = <<>>

NextMatch == FetchPage \/ MatchOne \/ MatchSummary

SpecMatch == InitMatch /\ [][NextMatch]_vars

----------------------------------------------------------------------------
(* Properties of perform_clustering *)

K == n_clusters[1]
N == Len(embeddings)
Labels == cluster_result.labels
Returned == pc = "returned"
LabelSet == {Labels[i] : i \in 1..N}

\* C1: after a successful cluster run over n records every record has one
\* label in [0, k) and the labels in use are exactly 0..k-1 (no label is
\* without members).
C1_DenseLabels ==
    Returned => (DOMAIN Labels = 1..N /\ LabelSet = 0..(K - 1))

Clamp(x, lo, hi) == IF x < lo THEN lo ELSE IF x > hi THEN hi ELSE x

C8_FewerRecordsThanClustersFails ==
    (pc \in {"returned", "raised"} /\ N < K) =>
        /\ pc = "raised"
        /\ error = "ValueError"
        /\ cluster_result = NoResult
        /\ files = <<>>

C8_Witness == pc = "raised" /\ error = "ValueError" /\ N >= 1 /\ N < K

\* C9: cluster with n == k assigns the n records to n distinct clusters, so
\* that each of the k clusters has exactly one member.
C9_OneRecordPerCluster ==
    (Returned /\ N = K) =>
        \A i, j \in 1..N : i # j => Labels[i] # Labels[j]

\* C10: in every cluster run two records with identical vectors get the
\* same cluster label.
C10_SameVectorSameLabel ==
    Returned =>
        \A i, j \in 1..N : embeddings[i] = embeddings[j] => Labels[i] = Labels[j]

C10_Witness ==
    /\ Returned
    /\ \E i, j \in 1..N : i # j /\ embeddings[i] = embeddings[j]
    /\ Cardinality(LabelSet) >= 2

----------------------------------------------------------------------------
(* Properties of the runs *)

Figs == [j \in 1..Len(files) |-> files[j].fig]
Fetched == Len(vectors_data)
Unmatched == {i \in 1..Fetched : vectors_data[i].referenceId \notin DOMAIN messages_map}

\* C3: when the metadata fetch fails and the embedding fetch gave n >= 1
\* records the run does not abort on it: it goes on with an empty metadata
\* mapping, and the statistics view it builds counts all n records under
\* the sender "UNKNOWN".
C3_MetadataFailureTolerated ==
    (api_status \in HttpFailures /\ Fetched >= 1) =>
        /\ error \notin {"ConnectionError", "JSONDecodeError"}
        /\ messages_map = EmptyMap
        /\ \A j \in 1..Len(files) :
              Figs[j].view = "stats" =>
                 Figs[j].top_senders = << [key |-> "UNKNOWN", n |-> Fetched] >>

RECURSIVE Rendered(_)
\* the record positions of the markers of all the traces, in trace order
Rendered(traces) ==
    IF traces = <<>> THEN <<>>
    ELSE [p \in 1..Len(Head(traces).points) |->
             Head(traces).points[p].recordIndex] \o Rendered(Tail(traces))

EachRecordOnce(idx) ==
    /\ Len(idx) = Fetched
    /\ \A i \in 1..Fetched : Cardinality({p \in 1..Len(idx) : idx[p] = i}) = 1

\* C4: every scatter view (coloured by message type, or grouped by cluster
\* label) renders as many points as embedding records were fetched: each
\* record once, a record without metadata entry with placeholder metadata.
C4_ScatterRendersEveryRecordOnce ==
    \A j \in 1..Len(files) :
        /\ Figs[j].view \in {"scatter", "clusters"} =>
              /\ EachRecordOnce(Rendered(Figs[j].traces))
              /\ \A t \in 1..Len(Figs[j].traces) :
                 \A p \in 1..Len(Figs[j].traces[t].points) :
                    LET m == Figs[j].traces[t].points[p]
                    IN m.recordIndex \in Unmatched =>
                          m.text \in {"UNKNOWN", "N/A"} /\ m.sender = "N/A"
        /\ Figs[j].view = "comparison" =>
              \A t \in 1..Len(Figs[j].traces) :
                 EachRecordOnce(Rendered(<<Figs[j].traces[t]>>))

C4_Witness ==
    \E j \in 1..Len(files) :
        /\ Figs[j].view = "clusters"
        /\ Len(Figs[j].traces) >= 2
        /\ Unmatched # {}
        /\ Unmatched # 1..Fetched

\* C5: when a stage of a run fails fatally (embedding fetch, reduction or
\* clustering) no report file has been written: no write of a report file
\* precedes a fatal failure of a later view or stage of the same run.
C5_NoFileBeforeFatalFailure ==
    pc = "raised" => files = <<>>

\* C6: when the embedding store cannot be reached, or answers with a
\* non-success or unparseable response, the fetch fails with an error (the
\* SourceUnavailable outcome) that is not the empty result, and the run
\* aborts.
C6_FailedFetchIsAnError ==
    es_status \in HttpFailures => (pc = "raised" /\ error # "")

\* C7: the fetch returns every record the embedding store holds, whatever
\* the size of the store (also above the page size of 1000).
C7_FetchReturnsWholeStore ==
    es_status = "200" => Len(vectors_data) = Len(store)

----------------------------------------------------------------------------
(* Properties of the reduction *)

ReduceDone == pc = "reduced"
ReduceOk == ReduceDone /\ reduced.result.kind = "ok"
Rows == Len(reduced.X)

\* C11: for every valid input, method (t-SNE or PCA) and 2 or 3 target
\* dimensions the reduction returns one projected point per input vector,
\* in the input order, each with as many coordinates as target dimensions.
C11_OnePointPerVectorInOrder ==
    ReduceOk =>
        /\ Len(reduced.result.value) = Rows
        /\ \A i \in 1..Rows :
              /\ reduced.result.value[i].dims = reduced.n_components
              /\ reduced.result.value[i].at =
                    IF reduced.method = "pca" THEN reduced.X[i] ELSE <<i>>

C11_Witness ==
    /\ ReduceOk
    /\ reduced.method = "tsne"
    /\ reduced.n_components = 3
    /\ Rows >= 3

\* C12: the PCA reduction fails (InsufficientData) whenever fewer than
\* targetDimensions + 1 records are supplied, so also with exactly
\* targetDimensions records.
C12_PcaNeedsOneMoreRecord ==
    (ReduceDone /\ reduced.method = "pca" /\ Rows < reduced.n_components + 1) =>
        reduced.result.kind = "raise"

\* C13: at every call site of the t-SNE reduction the perplexity handed to
\* the algorithm is at most n - 1 for n input records.
C13_PerplexityAtMostNMinusOne ==
    (ReduceDone /\ reduced.method = "tsne") =>
        reduced.perplexity[1] <= Rows - 1

C13_Witness ==
    /\ ReduceOk
    /\ reduced.method = "tsne"
    /\ Rows - 1 < PerplexityCap
    /\ reduced.perplexity = Some(Rows - 1)

----------------------------------------------------------------------------
(* Properties of two runs over the same sources *)

SecondRun == earlier # <<>>
Earlier == earlier[1]
\* both runs got the same answers from the store and from the API
SameAnswers ==
    /\ SecondRun
    /\ es_status = Earlier.es_status
    /\ api_status = Earlier.api_status
SameCall == SameAnswers /\ args = Earlier.args

\* the coordinates of the points of a view, trace by trace
Coords(fig) ==
    IF fig.view \in {"stats", "details"} THEN <<>>
    ELSE [t \in 1..Len(fig.traces) |->
            [p \in 1..Len(fig.traces[t].points) |-> fig.traces[t].points[p].xy]]

\* C14: reduction and clustering are deterministic: two runs on the same
\* input order, method, seed and target dimensions (respectively k) give the
\* same coordinates (respectively labels); every call site of t-SNE, PCA
\* and K-Means pins a seed.
C14_SeededRunsRepeat ==
    /\ TsneRandomState # None /\ PcaRandomState # None /\ KMeansRandomState # None
    /\ SameCall =>
          /\ cluster_result.kind = "ok" =>
                cluster_result.labels = Earlier.cluster_result.labels
          /\ \A j \in 1..Len(files) :
                Coords(files[j].fig) = Coords(Earlier.files[j].fig)

C14_Witness ==
    /\ SameCall
    /\ pc = "done"
    /\ script = "visualize_with_clustering"
    /\ Len(replay) >= 2
    /\ Cardinality({cluster_result.labels[i] : i \in 1..Len(embeddings)}) >= 2

StatsOf(fs) == {fs[j].fig : j \in {i \in 1..Len(fs) : fs[i].fig.view = "stats"}}

\* C15: running the pipeline twice on an unchanged snapshot of the store
\* and of the metadata source gives identical statistics-view counts (by
\* message type, cluster, sender, document kind), whatever the reduction
\* method of either run.
C15_StatsCountsRepeat ==
    SameAnswers => StatsOf(files) \subseteq StatsOf(Earlier.files)

C15_Witness ==
    /\ SameAnswers
    /\ StatsOf(files) # {}
    /\ args.method # Earlier.args.method
    /\ args.view = "all"
    /\ Fetched >= 2

Names == [j \in 1..Len(files) |-> files[j].name]

\* C17: in a run that builds all views, the scatter, comparison and
\* statistics views are written to three pairwise distinct files, whatever
\* the output name, so no view's file is overwritten by another view.
C17_ViewsInDistinctFiles ==
    (script = "visualize_clusters" /\ args.view = "all" /\ pc = "done") =>
        /\ Len(files) = 3
        /\ \A i, j \in 1..Len(files) : i # j => Names[i] # Names[j]

\* the markers of a view, all traces together
RECURSIVE Points(_)
Points(traces) ==
    IF traces = <<>> THEN <<>>
    ELSE Head(traces).points \o Points(Tail(traces))

Hovered(fig) ==
    IF fig.view \in {"scatter", "comparison", "clusters"}
    THEN Points(fig.traces) ELSE <<>>

\* C18: for every embedding whose referenceId is absent from the metadata
\* map, every metadata field shown for the record in a hover text (message
\* type, sender, receiver, status) is the "UNKNOWN" sentinel.
C18_UnmatchedShownAsUnknown ==
    \A j \in 1..Len(files) :
        LET pts == Hovered(files[j].fig)
        IN \A p \in 1..Len(pts) :
              pts[p].recordIndex \in Unmatched =>
                 /\ pts[p].text = "UNKNOWN"
                 /\ pts[p].sender = "UNKNOWN"
                 /\ pts[p].receiver = "UNKNOWN"
                 /\ pts[p].status = "UNKNOWN"

\* the projected row of record i, as the reducer of the view returns it
RowOf(xy, i) ==
    xy.at = IF xy.method = "pca" THEN vectors_data[i].embedding ELSE <<i>>

\* what a marker shows belongs to the record it stands for
BelongsToRecord(pt) ==
    LET i == pt.recordIndex
        vec == vectors_data[i]
    IN /\ pt.referenceId = vec.referenceId
       /\ RowOf(pt.xy, i)
       /\ vec.referenceId \in DOMAIN messages_map =>
             /\ pt.text = messages_map[vec.referenceId].messageType
             /\ pt.sender = messages_map[vec.referenceId].senderId
       /\ "cluster" \in DOMAIN pt => pt.cluster = cluster_result.labels[i]

\* C19: the order of the fetched embeddings is the record index of every
\* later stage: the fetched sequence keeps the order of the store, the
\* matrix keeps the order of the fetched sequence, and the projected point,
\* the cluster label and the metadata of every marker are those of the
\* record the marker stands for; the scatter has record i at position i.
C19_RecordIndexIsInputOrder ==
    /\ \A i \in 1..Fetched : vectors_data[i].id = store[i].id
    /\ \A i \in 1..Len(embeddings) : embeddings[i] = vectors_data[i].embedding
    /\ cluster_result.kind = "ok" => Len(cluster_result.labels) = Fetched
    /\ \A j \in 1..Len(files) :
          LET fig == files[j].fig
              pts == Hovered(fig)
          IN /\ \A p \in 1..Len(pts) : BelongsToRecord(pts[p])
             /\ fig.view \in {"scatter", "comparison"} =>
                   \A t \in 1..Len(fig.traces) :
                      \A p \in 1..Len(fig.traces[t].points) :
                         fig.traces[t].points[p].recordIndex = p

C19_Witness ==
    /\ pc = "done"
    /\ script = "visualize_with_clustering"
    /\ Fetched = 3
    /\ cluster_result.labels[1] = cluster_result.labels[3]
    /\ cluster_result.labels[1] # cluster_result.labels[2]
    /\ vectors_data[2].referenceId \in DOMAIN messages_map
    /\ vectors_data[1].referenceId # vectors_data[2].referenceId

\* the call has returned or raised
Terminated == pc \in {"returned", "raised", "reduced"}

C21_NoRecordsNoReport ==
    (es_status = "200" /\ store = <<>>) =>
        /\ pc = "no_vectors"
        /\ error = ""
        /\ files = <<>>
        /\ api_status = ""
        /\ n_clusters = None /\ embeddings = <<>> /\ centers = <<>>
        /\ cluster_result = NoResult

C21_Witness ==
    /\ es_status = "200"
    /\ store = <<>>
    /\ pc = "no_vectors"

\* the fetched embeddings are not all of one length
MixedLengths ==
    \E i, j \in 1..Fetched :
        Len(vectors_data[i].embedding) # Len(vectors_data[j].embedding)

\* C22: if the fetched embeddings are not all of the same length, the
\* reduction and the clustering fail before they produce a projected point
\* or a cluster label: no view with points is written, no labels exist,
\* and a run that calls either of them ends with the error.
C22_MixedLengthsFail ==
    MixedLengths =>
        /\ cluster_result.kind # "ok"
        /\ centers = <<>>
        /\ \A j \in 1..Len(files) : Hovered(files[j].fig) = <<>>
        /\ pc = "done" => (script = "visualize_clusters" /\ args.view = "stats")
        /\ (pc = "raised" /\ api_status \in {"200", "500"}) => error = "ValueError"

C22_Witness ==
    /\ MixedLengths
    /\ script = "visualize_with_clustering"
    /\ pc = "raised"
    /\ error = "ValueError"
    /\ api_status = "200"

----------------------------------------------------------------------------
(* Properties of the aggregations *)

\* the statistics view the run has written
StatsWritten == \E j \in 1..Len(files) : files[j].fig.view = "stats"
Stats == (CHOOSE f \in {files[j].fig : j \in 1..Len(files)} : f.view = "stats")

\* the sender of record i, as the aggregations see it
SenderOf(i) ==
    IF vectors_data[i].referenceId \in DOMAIN messages_map
    THEN messages_map[vectors_data[i].referenceId].senderId ELSE "UNKNOWN"
SendersSeen == {SenderOf(i) : i \in 1..Fetched}
RecordsOf(sender) == Cardinality({i \in 1..Fetched : SenderOf(i) = sender})

\* C23: the by-sender bars of the statistics view are at most 10 senders
\* with their record counts, in non-increasing order of count, and no
\* sender left out has more records than a sender shown.
C23_TopSendersByCount ==
    StatsWritten =>
        LET top == Stats.top_senders
            shown == {top[j].key : j \in 1..Len(top)}
        IN /\ Len(top) = Min(TopSenders, Cardinality(SendersSeen))
           /\ Cardinality(shown) = Len(top)
           /\ shown \subseteq SendersSeen
           /\ \A j \in 1..Len(top) : top[j].n = RecordsOf(top[j].key)
           /\ \A j \in 1..(Len(top) - 1) : top[j].n >= top[j + 1].n
           /\ \A out \in SendersSeen \ shown :
                 \A j \in 1..Len(top) : RecordsOf(out) <= top[j].n

\* more senders than bars, and a sender with several records that the sort
\* moves ahead of earlier ones
C23_Witness ==
    /\ StatsWritten
    /\ Cardinality(SendersSeen) > TopSenders
    /\ Stats.top_senders[1].n >= 2
    /\ Stats.top_senders[1].key # SenderOf(1)

\* the message type of record i, as the aggregations see it
TypeOf(i) ==
    IF vectors_data[i].referenceId \in DOMAIN messages_map
    THEN messages_map[vectors_data[i].referenceId].messageType ELSE "UNKNOWN"

\* a dict of counts that has every record under exactly one key: the key
\* that by(i) gives it
CountsEachRecordOnce(counts, by(_)) ==
    /\ Total(counts) = Fetched
    /\ \A i \in 1..Fetched :
          Cardinality({j \in 1..Len(counts) : counts[j].key = by(i)}) = 1
    /\ \A j \in 1..Len(counts) :
          counts[j].n = Cardinality({i \in 1..Fetched : by(i) = counts[j].key})

KindOf(i) == vectors_data[i].type

\* C24: in the statistics view the counts by message type, by sender
\* (before the cut to the top 10) and by document kind each sum to the
\* number of fetched records: every record, matched or not, is counted
\* once in each.
C24_StatsCountEveryRecordOnce ==
    StatsWritten =>
        /\ CountsEachRecordOnce(Stats.type_counts, TypeOf)
        /\ CountsEachRecordOnce(Stats.sender_counts, SenderOf)
        /\ CountsEachRecordOnce(Stats.doc_types, KindOf)

C24_Witness ==
    /\ StatsWritten
    /\ Unmatched # {}
    /\ Cardinality(Unmatched) < Fetched
    /\ Len(Stats.sender_counts) > TopSenders
    /\ \E j \in 1..Len(Stats.sender_counts) : Stats.sender_counts[j].n >= 2
    /\ Len(Stats.doc_types) = 2

\* the cluster-details view the run has written
DetailsWritten == \E j \in 1..Len(files) : files[j].fig.view = "details"
Details ==
    (CHOOSE f \in {files[j].fig : j \in 1..Len(files)} : f.view = "details")

\* C25: in the cluster-details view the cluster sizes sum to the number
\* of records, and within each cluster the counts by message type and the
\* counts by sender each sum to the size of the cluster.
C25_ClusterDetailsAddUp ==
    DetailsWritten =>
        LET cs == Details.cluster_stats
        IN /\ SumOver([t \in 1..Len(cs) |-> cs[t].size], 1..Len(cs)) = Fetched
           /\ \A t \in 1..Len(cs) :
                 /\ Total(cs[t].types) = cs[t].size
                 /\ Total(cs[t].senders) = cs[t].size
                 /\ cs[t].size =
                       Cardinality({i \in 1..Fetched :
                                      cluster_result.labels[i] = cs[t].cluster_id})

C25_Witness ==
    /\ DetailsWritten
    /\ Fetched = 3
    /\ Len(Details.cluster_stats) = 2
    /\ \E t \in 1..2 : /\ Details.cluster_stats[t].size = 2
                        /\ Len(Details.cluster_stats[t].senders) = 2
    /\ Unmatched # {}

Fits == Cardinality({p \in 1..Len(draws) : "seed" \in DOMAIN draws[p]})

\* the records a cluster view shows under label c
ShownUnder(fig, c) ==
    UNION {{fig.traces[t].points[p].recordIndex :
              p \in 1..Len(fig.traces[t].points)} :
           t \in {u \in 1..Len(fig.traces) : fig.traces[u].name = c}}

LabelledAs(c) == {i \in 1..Fetched : cluster_result.labels[i] = c}

\* C28: visualize_with_clustering clusters once, before either projection,
\* and its three views all show the records under the labels of that one
\* run: the labels never change once returned, and every view written has
\* each record under its label.
C28_ViewsShareOneLabelling ==
    /\ [](script = "visualize_with_clustering" =>
            /\ Fits <= 1
            /\ files # <<>> => (Fits = 1 /\ cluster_result.kind = "ok")
            /\ \A j \in 1..Len(files) :
                  LET fig == files[j].fig
                  IN IF fig.view = "clusters"
                     THEN /\ \A c \in 0..(n_clusters[1] - 1) :
                               ShownUnder(fig, c) = LabelledAs(c)
                          /\ \A pt \in {Hovered(fig)[p] : p \in 1..Len(Hovered(fig))} :
                               pt.cluster = cluster_result.labels[pt.recordIndex]
                     ELSE \A t \in 1..Len(fig.cluster_stats) :
                             fig.cluster_stats[t].size =
                                Cardinality(LabelledAs(fig.cluster_stats[t].cluster_id)))
    /\ [][cluster_result.kind = "ok" => cluster_result' = cluster_result]_vars

C28_Witness ==
    /\ script = "visualize_with_clustering"
    /\ pc = "done"
    /\ Len(files) = 3
    /\ Fetched = 3
    /\ Cardinality(LabelledAs(0)) = 2
    /\ Cardinality(LabelledAs(1)) = 1

\* the fetched records whose document of the index carries a clusterId
WithClusterId == {i \in 1..Fetched : store[i].clusterId # None}

\* C29: the by-cluster counts of the statistics view count exactly the
\* records whose clusterId is present: a record without one is left out,
\* and the counts sum to the number of records that carry a clusterId,
\* which is at most n.
C29_ClusterCountsSkipUnclustered ==
    StatsWritten =>
        LET cc == Stats.cluster_counts
        IN /\ Total(cc) = Cardinality(WithClusterId)
           /\ Total(cc) <= Fetched
           /\ \A j \in 1..Len(cc) :
                 cc[j].n = Cardinality({i \in WithClusterId :
                                          store[i].clusterId = Some(cc[j].key)})
           /\ \A i \in WithClusterId :
                 \E j \in 1..Len(cc) : Some(cc[j].key) = store[i].clusterId

C29_Witness ==
    /\ StatsWritten
    /\ Cardinality(WithClusterId) >= 4
    /\ Fetched - Cardinality(WithClusterId) >= 2
    /\ Len(Stats.cluster_counts) = 2

----------------------------------------------------------------------------
(* Properties of match_all_messages *)

Collected == matching.all_messages
Failures ==
    Cardinality({i \in 1..Len(matching.answers) :
                   matching.answers[i] \notin {"200", "201"}})

====
